---- MODULE Spec2Model ----
(***************************************************************************)
(* The module-orchestration engine of src/parser/core/Parser.js: the       *)
(* dependency resolution of buildModules, the normalise and trigger passes *)
(* of parseEvents, the failure cascade of _setModuleError and the report   *)
(* of generateResults.                                                     *)
(*                                                                         *)
(* Module identifiers are 1..NumMods; identifier i is the i-th key of      *)
(* _constructors (Object.keys keeps insertion order).  Array indices are   *)
(* JavaScript's: 0-based, indexOf answers -1 for a missing element.        *)
(***************************************************************************)
EXTENDS Integers, Sequences, FiniteSets, TLC

\* Number of registered module descriptors.
NumMods == 3
\* Longest input event sequence handed to parseEvents.
MaxEvents == 1
\* Most handleEvent exceptions raised in one run.
MaxThrows == 2
\* Largest displayOrder a descriptor declares.
MaxDisplayOrder == 1
\* generateResults calls made on one run
MaxReports == 2
\* timestamps of the clock runs are 0..MaxTime
MaxTime == 2
\* events of a clock run
MaxTimedEvents == 2
\* charges lost to overcap that a run of the charge counters is followed to
MaxOverCap == 2

Mods == 1..NumMods

VARIABLES
    _constructors,    \* mod -> [dependencies: Seq(Mods), displayOrder: Nat]
    fight,            \* [start_time, end_time]
    input,            \* the events argument parseEvents was called with
    _timestamp,
    modules,          \* the instance table: built mod -> [injected: set of mods]
    moduleOrder,
    _triggerModules,
    _moduleErrors,    \* mod -> NoError or an error record
    pc,               \* where the run is
    events,           \* parseEvents' local `events`
    normIdx,          \* index of the normalise forEach (0-based)
    evIdx,            \* index of the events.forEach of the analysis pass (0-based)
    event,            \* the event triggerEvent is delivering
    k,                \* index of triggerEvent's forEach (0-based)
    len,              \* length triggerEvent's forEach captured when it began
    results,          \* what the last generateResults returned
    \* history, observing the calls made on the modules
    normLog,          \* normalise calls: [mod, given, returned]
    liveAtStart,      \* _triggerModules when delivery of `event` began
    received,         \* modules whose triggerEvent got `event`, in call order
    threw,            \* modules whose triggerEvent has thrown in this run
    outputCalls,      \* output() calls of the last generateResults: [mod, present]
    reports,          \* what each generateResults call returned, in call order
    supplied,         \* the event argument of the last fabricateEvent call
    \* OGCDCharges
    gauge,            \* counter -> [value, overCap]: gaussRound, ricochet
    timer             \* counter -> remaining ms of its timer, 0 when not running

parserVars == <<_constructors, fight, input, _timestamp, modules, moduleOrder,
          _triggerModules, _moduleErrors, pc, events, normIdx, evIdx, event,
          k, len, results, normLog, liveAtStart, received, threw, outputCalls,
          reports, supplied>>

gaugeVars == <<gauge, timer>>

vars == <<parserVars, gaugeVars>>

-----------------------------------------------------------------------------
\* Sequences as JavaScript arrays

Range(s) == {s[i] : i \in 1..Len(s)}

Reverse(s) == [i \in 1..Len(s) |-> s[Len(s) + 1 - i]]

Includes(s, x) == \E i \in 1..Len(s) : s[i] = x

IndexOf(s, x) ==
    IF Includes(s, x)
    THEN (CHOOSE i \in 1..Len(s) : s[i] = x /\ \A j \in 1..(i - 1) : s[j] # x) - 1
    ELSE -1

Max(a, b) == IF a >= b THEN a ELSE b
Min(a, b) == IF a <= b THEN a ELSE b

\* Array.prototype.splice(start, deleteCount) without inserted items: a
\* negative start counts from the end of the array.
Splice(s, start, deleteCount) ==
    LET actualStart == IF start < 0 THEN Max(Len(s) + start, 0) ELSE Min(start, Len(s))
        count == Min(Max(deleteCount, 0), Len(s) - actualStart)
    IN SubSeq(s, 1, actualStart) \o SubSeq(s, actualStart + count + 1, Len(s))

Count(s, x) == Cardinality({i \in 1..Len(s) : s[i] = x})

\* The position (1-based) of x in s, 0 when absent.
Pos(s, x) == IndexOf(s, x) + 1

\* s keeps the relative order its elements have in t.
InOrderOf(s, t) ==
    \A i, j \in 1..Len(s) : i < j => Pos(t, s[i]) < Pos(t, s[j])

-----------------------------------------------------------------------------
\* Descriptors

Dependencies(mod) == _constructors[mod].dependencies

\* Object.keys(this._constructors)
Keys == [i \in 1..NumMods |-> i]

\* a depends on b directly
DependsOn(a, b) == Includes(Dependencies(a), b)

RECURSIVE ReachIn(_, _)
ReachIn(S, n) ==
    IF n = 0 THEN S
    ELSE ReachIn(S \cup {d \in Mods : \E a \in S : DependsOn(a, d)}, n - 1)

\* everything a depends on, directly or transitively
DepClosure(a) == ReachIn({d \in Mods : DependsOn(a, d)}, NumMods)

\* a depends on b directly or transitively
DependsOnTrans(a, b) == b \in DepClosure(a)

HasCycle == \E m \in Mods : DependsOnTrans(m, m)

NoError == [kind |-> "none"]
RuntimeError == [kind |-> "runtime"]
DependencyCascadeError(dependency) == [kind |-> "cascade", dependency |-> dependency]

-----------------------------------------------------------------------------
\* buildModules

\* The edges buildModules hands to toposort: [mod, dep] for every module in
\* key order and every dependency in declared order.
RECURSIVE EdgesFrom(_)
EdgesFrom(i) ==
    IF i > Len(Keys) THEN <<>>
    ELSE [j \in 1..Len(Dependencies(Keys[i])) |-> <<Keys[i], Dependencies(Keys[i])[j]>>]
         \o EdgesFrom(i + 1)

Edges == EdgesFrom(1)

\* toposort's visit(): the children of a node are the targets of its outgoing
\* edges; a node met again among its own predecessors is a cyclic dependency;
\* a node is written to the slot before the cursor once all its children are.
RECURSIVE Visit(_, _, _, _), VisitOutgoing(_, _, _, _, _)
Visit(st, edges, node, predecessors) ==
    IF st.cyclic THEN st
    ELSE IF node \in predecessors THEN [st EXCEPT !.cyclic = TRUE]
    ELSE IF node \in st.visited THEN st
    ELSE LET outgoing == SelectSeq(edges, LAMBDA e : e[1] = node)
             st1 == [st EXCEPT !.visited = @ \cup {node}]
             st2 == VisitOutgoing(st1, edges, outgoing, Len(outgoing),
                                  predecessors \cup {node})
         IN IF st2.cyclic THEN st2
            ELSE [st2 EXCEPT !.sorted = <<node>> \o @]

VisitOutgoing(st, edges, outgoing, i, preds) ==
    IF i = 0 \/ st.cyclic THEN st
    ELSE VisitOutgoing(Visit(st, edges, outgoing[i][2], preds),
                       edges, outgoing, i - 1, preds)

\* toposort.array(nodes, edges): the nodes are visited from the last to the
\* first; the result has every edge's source before its target.
RECURSIVE ToposortFrom(_, _, _, _)
ToposortFrom(st, nodes, edges, i) ==
    IF i = 0 \/ st.cyclic THEN st
    ELSE ToposortFrom(IF nodes[i] \in st.visited THEN st
                      ELSE Visit(st, edges, nodes[i], {}),
                      nodes, edges, i - 1)

ToposortArray(nodes, edges) ==
    ToposortFrom([visited |-> {}, sorted |-> <<>>, cyclic |-> FALSE],
                 nodes, edges, Len(nodes))

\* The instances built by walking `order`: each gets the instances of its
\* dependencies that are in the table at that moment.
RECURSIVE InitialiseModules(_, _, _)
InitialiseModules(order, i, table) ==
    IF i > Len(order) THEN table
    ELSE LET mod == order[i]
             module == [injected |-> {dep \in Range(Dependencies(mod)) :
                                         dep \in DOMAIN table}]
         IN InitialiseModules(order, i + 1,
                [m \in DOMAIN table \cup {mod} |->
                    IF m = mod THEN module ELSE table[m]])

NoModules == [m \in {} |-> [injected |-> {}]]

\* buildModules without the reverse() of the sorted array.
BuildModules_NoReverse ==
    /\ pc = "new"
    /\ LET sorted == ToposortArray(Keys, Edges)
       IN IF sorted.cyclic
          THEN /\ pc' = "cyclic"
               /\ UNCHANGED <<gaugeVars, reports, supplied, moduleOrder, modules>>
          ELSE /\ moduleOrder' = sorted.sorted
               /\ modules' = InitialiseModules(moduleOrder', 1, modules)
               /\ pc' = "built"
    /\ UNCHANGED <<gaugeVars, reports, supplied, _constructors, fight, input, _timestamp, _triggerModules,
                   _moduleErrors, events, normIdx, evIdx, event, k, len, results,
                   normLog, liveAtStart, received, threw, outputCalls>>

\* buildModules initialising the modules in key order before it sorts them.
BuildModules_InitialiseFirst ==
    /\ pc = "new"
    /\ modules' = InitialiseModules(Keys, 1, modules)
    /\ LET sorted == ToposortArray(Keys, Edges)
       IN IF sorted.cyclic
          THEN /\ pc' = "cyclic"
               /\ UNCHANGED moduleOrder
          ELSE /\ moduleOrder' = Reverse(sorted.sorted)
               /\ pc' = "built"
    /\ UNCHANGED <<gaugeVars, reports, supplied, _constructors, fight, input, _timestamp, _triggerModules,
                   _moduleErrors, events, normIdx, evIdx, event, k, len, results,
                   normLog, liveAtStart, received, threw, outputCalls>>

BuildModules ==
    /\ pc = "new"
    /\ LET sorted == ToposortArray(Keys, Edges)
       IN IF sorted.cyclic
          THEN /\ pc' = "cyclic"
               /\ UNCHANGED <<gaugeVars, reports, supplied, moduleOrder, modules>>
          ELSE /\ moduleOrder' = Reverse(sorted.sorted)
               /\ modules' = InitialiseModules(moduleOrder', 1, modules)
               /\ pc' = "built"
    /\ UNCHANGED <<gaugeVars, reports, supplied, _constructors, fight, input, _timestamp, _triggerModules,
                   _moduleErrors, events, normIdx, evIdx, event, k, len, results,
                   normLog, liveAtStart, received, threw, outputCalls>>

-----------------------------------------------------------------------------
\* parseEvents: the normalisers

\* What the modules' normalise does to the sequence: every module rewrites
\* each event, leaving its mark on it, so that what a module is given shows
\* which modules have been over the sequence before it.
NormaliseBy(mod, evs) ==
    [i \in 1..Len(evs) |-> [evs[i] EXCEPT !.normalisedBy = Append(@, mod)]]

\* An input sequence of n events, one time unit apart.
InputOf(startTime, n) ==
    [i \in 1..n |-> [type |-> "event", timestamp |-> startTime + i,
                     normalisedBy |-> <<>>]]

\* parseEvents is called: the normalise forEach begins.
ParseEvents ==
    /\ pc = "built"
    /\ \E n \in 0..MaxEvents : input' = InputOf(fight.start_time, n)
    /\ events' = input'
    /\ normIdx' = 0
    /\ pc' = "normalise"
    /\ UNCHANGED <<gaugeVars, reports, supplied, _constructors, fight, _timestamp, modules, moduleOrder,
                   _triggerModules, _moduleErrors, evIdx, event, k, len, results,
                   normLog, liveAtStart, received, threw, outputCalls>>

\* The input sequences of n events with timestamps in 0..MaxTime, in any
\* order.
TimedInputs(n) ==
    {[i \in 1..n |-> [type |-> "event", timestamp |-> ts[i], normalisedBy |-> <<>>]] :
        ts \in [1..n -> 0..MaxTime]}

\* parseEvents is called with events of any timestamps: before the start of
\* the fight, after its end, out of order.
ParseEventsAt ==
    /\ pc = "built"
    /\ \E n \in 0..MaxTimedEvents : input' \in TimedInputs(n)
    /\ events' = input'
    /\ normIdx' = 0
    /\ pc' = "normalise"
    /\ UNCHANGED <<gaugeVars, reports, supplied, _constructors, fight, _timestamp, modules,
                   moduleOrder, _triggerModules, _moduleErrors, evIdx, event, k,
                   len, results, normLog, liveAtStart, received, threw,
                   outputCalls>>

\* The normalise step handing every module the sequence parseEvents was
\* called with.
Normalise_GivenInput ==
    /\ pc = "normalise"
    /\ normIdx < Len(moduleOrder)
    /\ LET mod == moduleOrder[normIdx + 1]
           returned == NormaliseBy(mod, input)
       IN /\ events' = returned
          /\ normLog' = Append(normLog, [mod |-> mod, given |-> input,
                                         returned |-> returned])
    /\ normIdx' = normIdx + 1
    /\ UNCHANGED <<gaugeVars, reports, supplied, _constructors, fight, input, _timestamp, modules, moduleOrder,
                   _triggerModules, _moduleErrors, pc, evIdx, event, k, len,
                   results, liveAtStart, received, threw, outputCalls>>

\* events = this.modules[mod].normalise(events)
Normalise ==
    /\ pc = "normalise"
    /\ normIdx < Len(moduleOrder)
    /\ LET mod == moduleOrder[normIdx + 1]
           returned == NormaliseBy(mod, events)
       IN /\ events' = returned
          /\ normLog' = Append(normLog, [mod |-> mod, given |-> events,
                                         returned |-> returned])
    /\ normIdx' = normIdx + 1
    /\ UNCHANGED <<gaugeVars, reports, supplied, _constructors, fight, input, _timestamp, modules, moduleOrder,
                   _triggerModules, _moduleErrors, pc, evIdx, event, k, len,
                   results, liveAtStart, received, threw, outputCalls>>

\* A normalise loop that isolates a throwing normaliser as triggerEvent does
\* a throwing handler: a failure entry, and on to the next module.
NormaliseThrows_Isolated ==
    /\ pc = "normalise"
    /\ normIdx < Len(moduleOrder)
    /\ _moduleErrors' = [_moduleErrors EXCEPT ![moduleOrder[normIdx + 1]] = RuntimeError]
    /\ normIdx' = normIdx + 1
    /\ UNCHANGED <<gaugeVars, reports, supplied, _constructors, fight, input, _timestamp, modules,
                   moduleOrder, _triggerModules, pc, events, evIdx, event, k, len,
                   results, normLog, liveAtStart, received, threw, outputCalls>>

\* A normaliser throws: nothing catches it, parseEvents is left.
NormaliseThrows ==
    /\ pc = "normalise"
    /\ normIdx < Len(moduleOrder)
    /\ pc' = "aborted"
    /\ UNCHANGED <<gaugeVars, reports, supplied, _constructors, fight, input, _timestamp, modules, moduleOrder,
                   _triggerModules, _moduleErrors, events, normIdx, evIdx, event,
                   k, len, results, normLog, liveAtStart, received, threw,
                   outputCalls>>

-----------------------------------------------------------------------------
\* parseEvents: the analysis pass

\* The clock without the clamp.
currentTimestamp_Unclamped == _timestamp

currentTimestamp == Min(fight.end_time, _timestamp)

\* An argument the caller left out.
Undefined == "undefined"

\* The object built with the fields of `ev` spread last, over the mark.
FabricateEvent_SpreadLast(ev, trigger) ==
    [f \in DOMAIN ev \cup {"timestamp", "trigger", "__fabricated"} |->
        IF f \in DOMAIN ev THEN ev[f]
        ELSE IF f = "__fabricated" THEN TRUE
        ELSE IF f = "trigger" THEN trigger
        ELSE currentTimestamp]

\* The object fabricateEvent hands to triggerEvent: the current timestamp
\* and the trigger by default, then the fields of `ev`, then the fabricated
\* mark.
FabricateEvent(ev, trigger) ==
    [f \in DOMAIN ev \cup {"timestamp", "trigger", "__fabricated"} |->
        IF f = "__fabricated" THEN TRUE
        ELSE IF f \in DOMAIN ev THEN ev[f]
        ELSE IF f = "trigger" THEN trigger
        ELSE currentTimestamp]

InTrigger == pc \in {"init", "events", "complete", "fabricated"}

\* triggerEvent's forEach has no index left to visit: forEach reads the
\* length once, and skips an index the array no longer has.
ForEachDone == k >= len \/ k >= Len(_triggerModules)

\* _setModuleError(mod, error), on st = [live, errors]: take mod out of the
\* live list, record the error, then do the same for every key whose
\* dependencies include mod.
RECURSIVE SetModuleError(_, _, _), CascadeFrom(_, _, _)

\* _setModuleError recording the error and leaving mod in the live list.
SetModuleError_KeepsLive(st, mod, error) ==
    CascadeFrom([live |-> st.live, errors |-> [st.errors EXCEPT ![mod] = error]],
                mod, 1)

SetModuleError(st, mod, error) ==
    LET st1 == [live   |-> Splice(st.live, IndexOf(st.live, mod), 1),
                errors |-> [st.errors EXCEPT ![mod] = error]]
    IN CascadeFrom(st1, mod, 1)

\* The cascade disabling the direct dependents only.
RECURSIVE CascadeFrom_DirectOnly(_, _, _)
CascadeFrom_DirectOnly(st, mod, i) ==
    IF i > Len(Keys) THEN st
    ELSE LET key == Keys[i]
         IN CascadeFrom_DirectOnly(
                IF Includes(Dependencies(key), mod)
                THEN [live   |-> Splice(st.live, IndexOf(st.live, key), 1),
                      errors |-> [st.errors EXCEPT
                                     ![key] = DependencyCascadeError(mod)]]
                ELSE st,
                mod, i + 1)

\* The cascade naming the dependent itself in the error it records for it.
RECURSIVE CascadeFrom_NamesDependent(_, _, _)
CascadeFrom_NamesDependent(st, mod, i) ==
    IF i > Len(Keys) THEN st
    ELSE LET key == Keys[i]
         IN CascadeFrom_NamesDependent(
                IF Includes(Dependencies(key), mod)
                THEN SetModuleError(st, key, DependencyCascadeError(key))
                ELSE st,
                mod, i + 1)

CascadeFrom(st, mod, i) ==
    IF i > Len(Keys) THEN st
    ELSE LET key == Keys[i]
         IN CascadeFrom(IF Includes(Dependencies(key), mod)
                        THEN SetModuleError(st, key, DependencyCascadeError(mod))
                        ELSE st,
                        mod, i + 1)

\* The normalisers are through: copy the module order, fabricate 'init' and
\* begin delivering it.
FabricateInit ==
    /\ pc = "normalise"
    /\ normIdx = Len(moduleOrder)
    /\ _triggerModules' = moduleOrder
    /\ supplied' = [type |-> "init"]
    /\ event' = FabricateEvent(supplied', Undefined)
    /\ k' = 0
    /\ len' = Len(moduleOrder)
    /\ evIdx' = 0
    /\ liveAtStart' = moduleOrder
    /\ received' = <<>>
    /\ pc' = "init"
    /\ UNCHANGED <<gaugeVars, reports, _constructors, fight, input, _timestamp, modules, moduleOrder,
                   _moduleErrors, events, normIdx, results, normLog, threw,
                   outputCalls>>

\* this.modules[mod].triggerEvent(event) returns.
TriggerEvent ==
    /\ InTrigger
    /\ ~ForEachDone
    /\ received' = Append(received, _triggerModules[k + 1])
    /\ k' = k + 1
    /\ UNCHANGED <<gaugeVars, reports, supplied, _constructors, fight, input, _timestamp, modules, moduleOrder,
                   _triggerModules, _moduleErrors, pc, events, normIdx, evIdx,
                   event, len, results, normLog, liveAtStart, threw, outputCalls>>

\* triggerEvent without the try and catch: the throw leaves parseEvents.
TriggerEventThrows_Propagates ==
    /\ InTrigger
    /\ ~ForEachDone
    /\ Cardinality(threw) < MaxThrows
    /\ received' = Append(received, _triggerModules[k + 1])
    /\ threw' = threw \cup {_triggerModules[k + 1]}
    /\ pc' = "aborted"
    /\ UNCHANGED <<gaugeVars, reports, supplied, _constructors, fight, input, _timestamp, modules,
                   moduleOrder, _triggerModules, _moduleErrors, events, normIdx,
                   evIdx, event, k, len, results, normLog, liveAtStart,
                   outputCalls>>

\* this.modules[mod].triggerEvent(event) throws: the catch block cascades.
TriggerEventThrows ==
    /\ InTrigger
    /\ ~ForEachDone
    /\ Cardinality(threw) < MaxThrows
    /\ LET mod == _triggerModules[k + 1]
           st == SetModuleError([live |-> _triggerModules, errors |-> _moduleErrors],
                                mod, RuntimeError)
       IN /\ _triggerModules' = st.live
          /\ _moduleErrors' = st.errors
          /\ received' = Append(received, mod)
          /\ threw' = threw \cup {mod}
    /\ k' = k + 1
    /\ UNCHANGED <<gaugeVars, reports, supplied, _constructors, fight, input, _timestamp, modules, moduleOrder,
                   pc, events, normIdx, evIdx, event, len, results, normLog,
                   liveAtStart, outputCalls>>

\* The next event of the normalised sequence: set the clock, deliver it.
NextEvent ==
    /\ pc \in {"init", "events"}
    /\ ForEachDone
    /\ evIdx < Len(events)
    /\ _timestamp' = events[evIdx + 1].timestamp
    /\ event' = events[evIdx + 1]
    /\ evIdx' = evIdx + 1
    /\ k' = 0
    /\ len' = Len(_triggerModules)
    /\ liveAtStart' = _triggerModules
    /\ received' = <<>>
    /\ pc' = "events"
    /\ UNCHANGED <<gaugeVars, reports, supplied, _constructors, fight, input, modules, moduleOrder,
                   _triggerModules, _moduleErrors, events, normIdx, results,
                   normLog, threw, outputCalls>>

\* The sequence is through: fabricate 'complete' and begin delivering it.
FabricateComplete ==
    /\ pc \in {"init", "events"}
    /\ ForEachDone
    /\ evIdx = Len(events)
    /\ supplied' = [type |-> "complete"]
    /\ event' = FabricateEvent(supplied', Undefined)
    /\ k' = 0
    /\ len' = Len(_triggerModules)
    /\ liveAtStart' = _triggerModules
    /\ received' = <<>>
    /\ pc' = "complete"
    /\ UNCHANGED <<gaugeVars, reports, _constructors, fight, input, _timestamp, modules, moduleOrder,
                   _triggerModules, _moduleErrors, events, normIdx, evIdx,
                   results, normLog, threw, outputCalls>>

\* parseEvents returns.
ParseEventsReturns ==
    /\ pc = "complete"
    /\ ForEachDone
    /\ pc' = "parsed"
    /\ UNCHANGED <<gaugeVars, reports, supplied, _constructors, fight, input, _timestamp, modules, moduleOrder,
                   _triggerModules, _moduleErrors, events, normIdx, evIdx, event,
                   k, len, results, normLog, liveAtStart, received, threw,
                   outputCalls>>

\* The event arguments of the fabricateEvent calls made from outside
\* parseEvents: a type alone, or with a timestamp, a fabricated mark, a
\* trigger of the caller's.
SuppliedEvents ==
    LET plain == {[type |-> "custom"]}
        timed == {[type |-> "custom", timestamp |-> t] : t \in {0, fight.end_time + 1}}
        marked == {[type |-> "custom", __fabricated |-> FALSE],
                   [type |-> "custom", timestamp |-> fight.end_time + 1,
                    __fabricated |-> FALSE, trigger |-> "caller"]}
    IN plain \cup timed \cup marked

\* fabricateEvent(event, trigger) is called on the parsed run, by a module
\* naming itself as the trigger or by any holder of the parser: the event is
\* built and its delivery begins.
FabricateEventCalled ==
    /\ pc = "parsed"
    /\ \E ev \in SuppliedEvents, trigger \in {Undefined, "module"} :
          /\ supplied' = ev
          /\ event' = FabricateEvent(ev, trigger)
    /\ k' = 0
    /\ len' = Len(_triggerModules)
    /\ liveAtStart' = _triggerModules
    /\ received' = <<>>
    /\ pc' = "fabricated"
    /\ UNCHANGED <<gaugeVars, reports, _constructors, fight, input, _timestamp, modules,
                   moduleOrder, _triggerModules, _moduleErrors, events, normIdx,
                   evIdx, results, normLog, threw, outputCalls>>

\* fabricateEvent returns.
FabricateEventReturns ==
    /\ pc = "fabricated"
    /\ ForEachDone
    /\ pc' = "done"
    /\ UNCHANGED <<gaugeVars, reports, supplied, _constructors, fight, input, _timestamp,
                   modules, moduleOrder, _triggerModules, _moduleErrors, events,
                   normIdx, evIdx, event, k, len, results, normLog, liveAtStart,
                   received, threw, outputCalls>>

-----------------------------------------------------------------------------
\* generateResults

DisplayOrderOf(mod) == _constructors[mod].displayOrder

\* Array.prototype.sort with the comparator of generateResults: ascending
\* displayOrder, elements that compare equal keep their order.
RECURSIVE InsertSorted(_, _), SortByDisplayOrder(_)

\* A sort that moves an element in front of those it compares equal to.
RECURSIVE InsertSorted_Unstable(_, _)
InsertSorted_Unstable(sorted, mod) ==
    IF sorted = <<>> THEN <<mod>>
    ELSE IF DisplayOrderOf(sorted[Len(sorted)]) - DisplayOrderOf(mod) >= 0
         THEN Append(InsertSorted_Unstable(SubSeq(sorted, 1, Len(sorted) - 1), mod),
                     sorted[Len(sorted)])
         ELSE Append(sorted, mod)

InsertSorted(sorted, mod) ==
    IF sorted = <<>> THEN <<mod>>
    ELSE IF DisplayOrderOf(sorted[Len(sorted)]) - DisplayOrderOf(mod) > 0
         THEN Append(InsertSorted(SubSeq(sorted, 1, Len(sorted) - 1), mod),
                     sorted[Len(sorted)])
         ELSE Append(sorted, mod)

SortByDisplayOrder(s) ==
    IF s = <<>> THEN <<>>
    ELSE InsertSorted(SortByDisplayOrder(SubSeq(s, 1, Len(s) - 1)), s[Len(s)])

\* The forEach of generateResults over displayOrder from index i on; `present`
\* is the set of modules whose output() returns something.
RECURSIVE ResultsFrom(_, _, _)

\* The forEach without the return that ends the error branch.
RECURSIVE ResultsFrom_NoReturn(_, _, _)
ResultsFrom_NoReturn(displayOrder, i, present) ==
    IF i > Len(displayOrder) THEN <<>>
    ELSE LET mod == displayOrder[i]
             rest == ResultsFrom_NoReturn(displayOrder, i + 1, present)
             error == IF _moduleErrors[mod] # NoError
                      THEN <<[name |-> mod, markup |-> _moduleErrors[mod]]>>
                      ELSE <<>>
         IN IF mod \in present
            THEN error \o <<[name |-> mod, markup |-> [kind |-> "output"]]>> \o rest
            ELSE error \o rest

ResultsFrom(displayOrder, i, present) ==
    IF i > Len(displayOrder) THEN <<>>
    ELSE LET mod == displayOrder[i]
             rest == ResultsFrom(displayOrder, i + 1, present)
         IN IF _moduleErrors[mod] # NoError
            THEN <<[name |-> mod, markup |-> _moduleErrors[mod]]>> \o rest
            ELSE IF mod \in present
                 THEN <<[name |-> mod, markup |-> [kind |-> "output"]]>> \o rest
                 ELSE rest

\* The output() calls that forEach makes, with what each returned.
OutputCallsOf(displayOrder, present) ==
    LET called == SelectSeq(displayOrder, LAMBDA m : _moduleErrors[m] = NoError)
    IN [i \in 1..Len(called) |-> [mod |-> called[i], present |-> called[i] \in present]]

\* generateResults on a parsed run; displayOrder is the moduleOrder array
\* itself, so the sort reorders moduleOrder. A module's output() returns on a
\* later call what it returned on the first: the run is over and the
\* module's state no longer changes.
GenerateResults ==
    /\ pc \in {"parsed", "reported"}
    /\ Len(reports) < MaxReports
    /\ moduleOrder' = SortByDisplayOrder(moduleOrder)
    /\ \E present \in SUBSET Mods :
          /\ pc = "reported" =>
                \A i \in 1..Len(outputCalls) :
                    (outputCalls[i].mod \in present) = outputCalls[i].present
          /\ results' = ResultsFrom(moduleOrder', 1, present)
          /\ outputCalls' = OutputCallsOf(moduleOrder', present)
    /\ reports' = Append(reports, results')
    /\ pc' = "reported"
    /\ UNCHANGED <<gaugeVars, supplied, _constructors, fight, input, _timestamp, modules,
                   _triggerModules, _moduleErrors, events, normIdx, evIdx, event,
                   k, len, normLog, liveAtStart, received, threw>>

-----------------------------------------------------------------------------
\* OGCDCharges: the Gauss Round and Ricochet charge counters

GAUSS_ROUND_TIME_REQUIRED == 30000
RICOCHET_TIME_REQUIRED == 30000
HEAT_BLAST_REFUND == 15000

Gauges == {"gaussRound", "ricochet"}

\* The options the counters and their timers are constructed with.
Maximum == [gaussRound |-> 3, ricochet |-> 3]
InitialValue == [gaussRound |-> 3, ricochet |-> 3]
TimeRequired == [gaussRound |-> GAUSS_ROUND_TIME_REQUIRED,
                 ricochet |-> RICOCHET_TIME_REQUIRED]

\* A CounterGauge: its value and the amount generated past its maximum.
CounterGauge(initialValue) == [value |-> initialValue, overCap |-> 0]

\* CounterGauge.set: the value is kept within 0..maximum, what is above the
\* maximum is counted as overcap.
CounterSet(g, c, value) ==
    [value |-> Min(Max(value, 0), Maximum[g]),
     overCap |-> c.overCap + Max(value - Maximum[g], 0)]

Generate(g, c, amount) == CounterSet(g, c, c.value + amount)
Spend(g, c, amount) == CounterSet(g, c, c.value - amount)
Capped(g, c) == c.value >= Maximum[g]

\* TimerGauge.set, start and reset: the remaining time is kept within
\* 0..maximum; start sets it to the maximum, running or not, reset to 0.
TimerSet(g, duration) == Max(0, Min(duration, TimeRequired[g]))
TimerStart(g) == TimerSet(g, TimeRequired[g])
TimerReset(g) == TimerSet(g, 0)

\* onCompleteTimer on st = [gauge, timer], the counter g and its timer.
OnCompleteTimer(g, st) ==
    LET generated == Generate(g, st.gauge, 1)
    IN [gauge |-> generated,
        timer |-> IF ~Capped(g, generated) THEN TimerStart(g) ELSE TimerReset(g)]

\* refundPartialCooldown on st = [gauge, timer], the counter g and its timer.
RefundPartialCooldown(g, st, amount) ==
    IF Capped(g, st.gauge) THEN st
    ELSE IF st.timer < amount
         THEN LET remainder == st.timer
                  completed == OnCompleteTimer(g, st)
              IN IF ~Capped(g, completed.gauge)
                 THEN [completed EXCEPT
                          !.timer = TimerSet(g, completed.timer - amount + remainder)]
                 ELSE completed
         ELSE [st EXCEPT !.timer = TimerSet(g, st.timer - amount)]

\* A run is followed until MaxOverCap charges have been lost to overcap.
WithinOverCap == \A g \in Gauges : gauge[g].overCap < MaxOverCap

\* An onAction that starts the timer of the counter it spends from, and no
\* other.
OnAction_OwnTimer(g) ==
    /\ WithinOverCap
    /\ timer' = IF Capped(g, gauge[g])
                THEN [timer EXCEPT ![g] = TimerStart(g)]
                ELSE timer
    /\ gauge' = [gauge EXCEPT ![g] = Spend(g, gauge[g], 1)]
    /\ UNCHANGED parserVars

\* The hook onAction(gauge, modifiers) returns, on an action of the counter
\* g: Gauss Round for gaussRound, Ricochet for ricochet.
OnAction(g) ==
    /\ WithinOverCap
    /\ timer' = IF Capped(g, gauge[g])
                THEN [gaussRound |-> TimerStart("gaussRound"),
                      ricochet |-> TimerStart("ricochet")]
                ELSE timer
    /\ gauge' = [gauge EXCEPT ![g] = Spend(g, gauge[g], 1)]
    /\ UNCHANGED parserVars

\* onHeatBlast: a partial refund for each counter.
OnHeatBlast ==
    /\ WithinOverCap
    /\ LET refunded == [g \in Gauges |->
                           RefundPartialCooldown(g, [gauge |-> gauge[g], timer |-> timer[g]],
                                                 HEAT_BLAST_REFUND)]
       IN /\ gauge' = [g \in Gauges |-> refunded[g].gauge]
          /\ timer' = [g \in Gauges |-> refunded[g].timer]
    /\ UNCHANGED parserVars

\* Time passes, by no more than any running timer has left; a timer that
\* reaches 0 expires and its onExpiration, onCompleteTimer, is called.
TimePasses ==
    /\ WithinOverCap
    /\ \E g \in Gauges : timer[g] > 0
    /\ \E d \in {HEAT_BLAST_REFUND \div 3, HEAT_BLAST_REFUND} :
          /\ \A g \in Gauges : timer[g] > 0 => timer[g] >= d
          /\ LET after == [g \in Gauges |->
                              IF timer[g] > 0 /\ timer[g] - d = 0
                              THEN OnCompleteTimer(g, [gauge |-> gauge[g], timer |-> 0])
                              ELSE [gauge |-> gauge[g], timer |-> Max(timer[g] - d, 0)]]
             IN /\ gauge' = [g \in Gauges |-> after[g].gauge]
                /\ timer' = [g \in Gauges |-> after[g].timer]
    /\ UNCHANGED parserVars

-----------------------------------------------------------------------------
\* Runs

\* The lists without repetition over the set S.
ListsOver(S) ==
    {s \in UNION {[1..n -> S] : n \in 0..Cardinality(S)} :
        \A i, j \in 1..Len(s) : i # j => s[i] # s[j]}

\* The dependency lists a descriptor of mod may declare: other modules, in
\* any order, or mod itself.
DependencyLists(mod) == ListsOver(Mods \ {mod}) \cup {<<mod>>}

\* The descriptor sets of the modules 1..n: each declares one of its
\* dependency lists and one of the given displayOrder values.
RECURSIVE DescriptorsOf(_, _)
DescriptorsOf(n, priorities) ==
    IF n = 0 THEN {<<>>}
    ELSE {Append(f, [dependencies |-> d, displayOrder |-> p]) :
             f \in DescriptorsOf(n - 1, priorities),
             d \in DependencyLists(n),
             p \in priorities}

\* Every descriptor set over Mods, the displayOrder left at 0.
AllDescriptors == DescriptorsOf(NumMods, {0})

\* The Parser as its constructor leaves it, for a descriptor set and a fight
\* among the given ones.
InitWith(descriptors, fights) ==
    /\ _constructors \in descriptors
    /\ fight \in fights
    /\ input = <<>>
    /\ _timestamp = fight.start_time
    /\ modules = NoModules
    /\ moduleOrder = <<>>
    /\ _triggerModules = <<>>
    /\ _moduleErrors = [m \in Mods |-> NoError]
    /\ pc = "new"
    /\ events = <<>>
    /\ normIdx = 0
    /\ evIdx = 0
    /\ event = [type |-> "none"]
    /\ k = 0
    /\ len = 0
    /\ results = <<>>
    /\ normLog = <<>>
    /\ liveAtStart = <<>>
    /\ received = <<>>
    /\ threw = {}
    /\ outputCalls = <<>>
    /\ reports = <<>>
    /\ supplied = [type |-> "none"]
    /\ gauge = [g \in Gauges |-> CounterGauge(InitialValue[g])]
    /\ timer = [g \in Gauges |-> 0]

Fights == {[start_time |-> 0, end_time |-> MaxEvents]}

Init == InitWith(AllDescriptors, Fights)

Next ==
    \/ BuildModules
    \/ ParseEvents
    \/ Normalise
    \/ NormaliseThrows
    \/ FabricateInit
    \/ TriggerEvent
    \/ TriggerEventThrows
    \/ NextEvent
    \/ FabricateComplete
    \/ ParseEventsReturns

\* Building the modules and parsing the events, for every descriptor set.
Spec == Init /\ [][Next]_vars

\* The dependency shapes of the report runs: no dependencies, a chain in
\* key order, a chain against key order, one dependent pair among
\* independent modules.
ReportShapes ==
    { [m \in Mods |-> <<>>],
      [m \in Mods |-> IF m > 1 THEN <<m - 1>> ELSE <<>>],
      [m \in Mods |-> IF m < NumMods THEN <<m + 1>> ELSE <<>>],
      [m \in Mods |-> IF m = 2 THEN <<1>> ELSE <<>>] }

\* The descriptor sets of the report runs: a shape, and every assignment of
\* displayOrder values.
ReportDescriptors ==
    {[m \in Mods |-> [dependencies |-> shape[m], displayOrder |-> p[m]]] :
        shape \in ReportShapes, p \in [Mods -> 0..MaxDisplayOrder]}

InitReport == InitWith(ReportDescriptors, Fights)

NextReport ==
    \/ Next
    \/ GenerateResults

\* Building, parsing and reporting, for every displayOrder assignment.
SpecReport == InitReport /\ [][NextReport]_vars

\* The fights of the clock runs: every start and end in 0..MaxTime, the end
\* not before the start.
ClockFights ==
    {f \in [start_time : 0..MaxTime, end_time : 0..MaxTime] :
        f.start_time <= f.end_time}

\* The descriptor sets of the clock runs: the shapes of the report runs.
ClockDescriptors ==
    {[m \in Mods |-> [dependencies |-> shape[m], displayOrder |-> 0]] :
        shape \in ReportShapes}

InitClock == InitWith(ClockDescriptors, ClockFights)

NextClock ==
    \/ BuildModules
    \/ ParseEventsAt
    \/ Normalise
    \/ FabricateInit
    \/ TriggerEvent
    \/ NextEvent
    \/ FabricateComplete
    \/ ParseEventsReturns
    \/ FabricateEventCalled
    \/ FabricateEventReturns

\* Runs over events of any timestamps in fights of any start and end, with a
\* fabricateEvent call on the parsed run; no module throws.
SpecClock == InitClock /\ [][NextClock]_vars

\* The parser of the charge runs is left as constructed; its modules have no
\* dependencies.
ChargeDescriptors == {[m \in Mods |-> [dependencies |-> <<>>, displayOrder |-> 0]]}

InitCharges == InitWith(ChargeDescriptors, Fights)

NextCharges ==
    \/ \E g \in Gauges : OnAction(g)
    \/ OnHeatBlast
    \/ TimePasses

\* The charge counters of OGCDCharges under any sequence of Gauss Round,
\* Ricochet and Heat Blast actions and timer expirations.
SpecCharges == InitCharges /\ [][NextCharges]_vars

-----------------------------------------------------------------------------
\* Properties

Live == Range(_triggerModules)

\* The modules with a failure entry.
Failed == {m \in Mods : _moduleErrors[m] # NoError}

\* Delivery of `event` is through: triggerEvent's forEach has ended.
Delivered == (InTrigger /\ ForEachDone) \/ pc = "parsed"

\* m is not a module that threw and has no dependency path to one.
Unaffected(m) == \A b \in threw : m # b /\ ~DependsOnTrans(m, b)

\* C1: when an event has been delivered, every module that was live when its
\* delivery began and has no failure entry has received it exactly once, and
\* the modules received it in moduleOrder order.
C1_LiveModulesReceiveEachEvent ==
    Delivered =>
        /\ \A m \in Range(liveAtStart) :
              m \notin Failed => Count(received, m) = 1
        /\ InOrderOf(received, moduleOrder)

\* C2: a module with no dependency path to a module that threw stays in the
\* live list, has no failure entry, and has received every event whose
\* delivery is through.
C2_UnrelatedModuleUnaffected ==
    (InTrigger \/ pc = "parsed") =>
        \A m \in Mods :
            Unaffected(m) =>
                /\ m \in Live
                /\ m \notin Failed
                /\ Delivered => Count(received, m) = 1


\* C3: a module that threw and every module depending on it, directly or
\* transitively, are out of the live list and have a failure entry, a
\* dependency cascade for the dependents; and no module that has a failure
\* entry is handed an event.
C3_FailedModulesAndDependentsDisabled ==
    /\ [](\A b \in threw : \A a \in Mods :
            (a = b \/ DependsOnTrans(a, b)) =>
                /\ a \notin Live
                /\ a \in Failed
                /\ DependsOnTrans(a, b) => _moduleErrors[a].kind = "cascade")
    /\ [][\A m \in Mods :
            Count(received', m) > Count(received, m) => m \notin Failed]_vars

\* A run is through in which a module threw on an event before the last and
\* a module that depends on it only through another, and never threw, was
\* cascaded.
C3_Witness ==
    /\ pc = "parsed"
    /\ received = <<>>
    /\ \E b \in threw : \E a \in Mods \ threw :
          /\ DependsOnTrans(a, b)
          /\ ~DependsOn(a, b)
          /\ _moduleErrors[a].kind = "cascade"

C5_LiveAndFailedDisjoint ==
    /\ [](Live \cap Failed = {})
    /\ [][/\ Failed \subseteq Failed'
          /\ InTrigger => Range(_triggerModules') \subseteq Live]_vars

\* Some modules have failed while others are still live.
C5_Witness ==
    /\ InTrigger
    /\ Failed # {}
    /\ Live # {}
    /\ threw # {}

\* C6: buildModules succeeds for every acyclic descriptor set, and the
\* moduleOrder it leaves holds every registered identifier once, each
\* dependency before every module that declares it.
C6_DependenciesFirst ==
    /\ pc = "cyclic" => HasCycle
    /\ pc = "built" =>
          /\ Len(moduleOrder) = NumMods
          /\ Range(moduleOrder) = Mods
          /\ \A a, d \in Mods :
                DependsOn(a, d) => Pos(moduleOrder, d) < Pos(moduleOrder, a)

\* A descriptor set is built in which a module depends on one registered
\* after it.
C6_Witness ==
    /\ pc = "built"
    /\ \E a, d \in Mods : a < d /\ DependsOn(a, d)

\* C7: buildModules never succeeds for a descriptor set with a dependency
\* cycle: it ends in the cyclic-dependency error, with no module instance
\* built and no order set.
C7_CycleFailsBeforeInstances ==
    /\ pc = "built" => ~HasCycle
    /\ pc = "cyclic" =>
          /\ DOMAIN modules = {}
          /\ moduleOrder = <<>>

\* buildModules failed on two modules that depend on each other.
C7_Witness ==
    /\ pc = "cyclic"
    /\ \E a, b \in Mods : a # b /\ DependsOn(a, b) /\ DependsOn(b, a)

\* C8: the normalise calls made so far are those of the first modules of
\* moduleOrder, one each and in that order, each given what the call before
\* it returned (the first the input); once the analysis pass has begun
\* every module has been normalised and `events` is what the last returned.
C8_NormaliseOnceInOrderFirst ==
    /\ Len(normLog) <= Len(moduleOrder)
    /\ \A i \in 1..Len(normLog) :
          /\ normLog[i].mod = moduleOrder[i]
          /\ normLog[i].given = IF i = 1 THEN input ELSE normLog[i - 1].returned
    /\ (InTrigger \/ pc = "parsed" \/ received # <<>>) =>
          /\ Len(normLog) = Len(moduleOrder)
          /\ events = IF normLog = <<>> THEN input
                      ELSE normLog[Len(normLog)].returned

\* An event of a non-empty sequence is being delivered after every module
\* normalised it.
C8_Witness ==
    /\ pc = "events"
    /\ received # <<>>
    /\ Len(normLog) = NumMods
    /\ \A i \in 1..Len(event.normalisedBy) : event.normalisedBy[i] = moduleOrder[i]
    /\ Len(event.normalisedBy) = NumMods

\* C9: once 'init' or 'complete' has been delivered, the modules that were
\* live when it was fabricated and have no failure entry have received it,
\* in moduleOrder order; and at the end of the run every module without a
\* failure entry has received 'complete'.
C9_BoundaryEventsReachLiveModules ==
    /\ (pc \in {"init", "complete"} /\ ForEachDone) =>
          /\ SelectSeq(liveAtStart, LAMBDA m : m \notin Failed)
                = SelectSeq(received, LAMBDA m : m \notin Failed)
          /\ Range(received) \subseteq Range(liveAtStart)
    /\ pc = "parsed" => \A m \in Mods \ Failed : m \in Range(received)


\* The entries of the report that carry the name of m.
EntriesOf(m) == SelectSeq(results, LAMBDA e : e.name = m)

\* The output() calls made on m.
OutputCallsOn(m) == SelectSeq(outputCalls, LAMBDA c : c.mod = m)

BuildOrder == Reverse(ToposortArray(Keys, Edges).sorted)

\* The modules of the report's entries, in report order.
ReportNames == [i \in 1..Len(results) |-> results[i].name]

\* C11: the entries of a report are in ascending displayOrder, and entries of
\* equal displayOrder are in the order buildModules gave their modules.
C11_ReportInDisplayOrder ==
    pc = "reported" =>
        \A i, j \in 1..Len(results) :
            i < j =>
                /\ DisplayOrderOf(ReportNames[i]) <= DisplayOrderOf(ReportNames[j])
                /\ DisplayOrderOf(ReportNames[i]) = DisplayOrderOf(ReportNames[j])
                      => Pos(BuildOrder, ReportNames[i]) < Pos(BuildOrder, ReportNames[j])

\* A report has an entry for every module, two of equal displayOrder that are
\* not in key order, and the sort moved a module: the first of the build
\* order is not the first of the report.
C11_Witness ==
    /\ pc = "reported"
    /\ Len(results) = NumMods
    /\ ReportNames[1] # BuildOrder[1]
    /\ \E i, j \in 1..Len(results) :
          /\ i < j
          /\ DisplayOrderOf(ReportNames[i]) = DisplayOrderOf(ReportNames[j])
          /\ ReportNames[i] > ReportNames[j]

\* Neither of x and y depends on the other, directly or transitively.
Unrelated(x, y) == ~DependsOnTrans(x, y) /\ ~DependsOnTrans(y, x)

\* No registered module declares m as a dependency.
Undeclared(m) == \A a \in Mods : ~DependsOn(a, m)

\* C12 as claimed: of two modules neither of which depends on the other, the
\* one registered first comes first in the moduleOrder buildModules leaves.
C12_RegistrationOrderPreserved ==
    pc = "built" =>
        \A x, y \in Mods :
            (x < y /\ Unrelated(x, y)) =>
                Pos(moduleOrder, x) < Pos(moduleOrder, y)

\* C12 amended: of two modules that no module declares as a dependency, the
\* one registered later comes first in the moduleOrder buildModules leaves.
C12_LaterRegisteredRootFirst ==
    pc = "built" =>
        \A x, y \in Mods :
            (x < y /\ Undeclared(x) /\ Undeclared(y)) =>
                Pos(moduleOrder, y) < Pos(moduleOrder, x)

\* A set is built with two modules nothing depends on, the earlier of which
\* has a dependency of its own.
C12_Witness ==
    /\ pc = "built"
    /\ \E x, y \in Mods :
          /\ x < y
          /\ Undeclared(x)
          /\ Undeclared(y)
          /\ Dependencies(x) # <<>>
          /\ Pos(moduleOrder, y) < Pos(moduleOrder, x)

\* C13: once buildModules has set moduleOrder, no later operation changes
\* it: not parseEvents, not a failure cascade, not generateResults.
C13_ModuleOrderFixedAfterBuild ==
    [][pc # "new" => moduleOrder' = moduleOrder]_vars

\* The modules of the entries of a report, in report order.
NamesOf(report) == [i \in 1..Len(report) |-> report[i].name]

\* C14: every generateResults call on a run returns entries for the same
\* modules, in the same order, as the first call on that run.
C14_RepeatedReportsSameOrder ==
    \A i \in 1..Len(reports) : NamesOf(reports[i]) = NamesOf(reports[1])

\* generateResults was called again on a run whose first call reordered
\* moduleOrder, the report having entries of equal displayOrder.
C14_Witness ==
    /\ Len(reports) = MaxReports
    /\ moduleOrder # BuildOrder
    /\ Len(reports[1]) = NumMods
    /\ \E i, j \in 1..NumMods :
          i # j /\ DisplayOrderOf(i) = DisplayOrderOf(j)

\* The steps the analysis pass can still take: a full forEach for every
\* event not yet begun, and the rest of the forEach under way.
PassRank ==
    LET pending == IF pc = "init" THEN Len(events) + 1
                   ELSE IF pc = "events" THEN Len(events) - evIdx + 1
                   ELSE 0
    IN IF InTrigger THEN pending * (NumMods + 1) + (len - k) ELSE 0 - 1

\* C15: whatever handleEvent calls throw, the analysis pass is never stuck:
\* a handler can return, the next event can begin or parseEvents can
\* return; and every step of it, a throw with its cascade included, stays in
\* the pass or ends it, moves to the next event at most and uses up some of
\* the steps left, so parseEvents returns; when it has, every event of the
\* normalised sequence was visited, 'complete' was fabricated, and what
\* generateResults computes on that state is a report, with an entry for
\* every failed module even if no output() returns anything.
C15_FailuresNeverAbort ==
    /\ [](InTrigger =>
            ENABLED (TriggerEvent \/ NextEvent \/ FabricateComplete \/ ParseEventsReturns))
    /\ [][InTrigger =>
            /\ InTrigger' \/ pc' = "parsed"
            /\ PassRank' < PassRank
            /\ PassRank' >= 0 - 1
            /\ evIdx' \in {evIdx, evIdx + 1}]_vars
    /\ [](pc = "parsed" =>
            /\ evIdx = Len(events)
            /\ event.type = "complete"
            /\ event.__fabricated
            /\ Len(ResultsFrom(SortByDisplayOrder(moduleOrder), 1, {}))
                  = Cardinality(Failed))

\* parseEvents has returned from a run with events in which a module threw
\* and a cascade disabled another.
C15_Witness ==
    /\ pc = "parsed"
    /\ Len(events) = MaxEvents
    /\ threw # {}
    /\ \E m \in Mods \ threw : _moduleErrors[m].kind = "cascade"

\* C18: a throw of a normaliser is not isolated. While the modules are
\* normalised, and after a throw has ended the run, there is no failure
\* entry, the live list is empty and no event, 'init' included, has been
\* fabricated or handed to a module; the normalise calls made are those
\* before the module that threw, and nothing happens after the throw.
C18_NormaliseThrowAborts ==
    /\ [](pc \in {"normalise", "aborted"} =>
            /\ Failed = {}
            /\ _triggerModules = <<>>
            /\ event = [type |-> "none"]
            /\ received = <<>>
            /\ Len(normLog) = normIdx)
    /\ [](pc = "aborted" => normIdx < Len(moduleOrder))
    /\ [][pc = "aborted" => FALSE]_vars

\* The normaliser of the last module threw on a non-empty sequence the
\* modules before it had normalised.
C18_Witness ==
    /\ pc = "aborted"
    /\ Len(input) = MaxEvents
    /\ Len(normLog) = NumMods - 1
    /\ events # input

\* C19: a failure entry, once recorded, is never changed, so the entry of a
\* module that threw stays its own runtime error; and a throw removes from
\* the live list only the module that threw and modules depending on it.
C19_FailureEntriesFinal ==
    [][/\ \A m \in Failed : _moduleErrors'[m] = _moduleErrors[m]
       /\ \A m \in threw : _moduleErrors'[m] = RuntimeError
       /\ \A b \in threw' \ threw : \A m \in Live \ Range(_triggerModules') :
             m = b \/ DependsOnTrans(m, b)]_vars

\* The timestamps of evs never decrease.
Sorted(evs) ==
    \A i \in 1..(Len(evs) - 1) : evs[i].timestamp <= evs[i + 1].timestamp

\* The clock is never past the end of the fight, and the step that begins
\* the delivery of an event of the sequence sets it to that event's
\* timestamp, or to the end of the fight if that is earlier.
ClockClampedAndSet ==
    /\ [](currentTimestamp <= fight.end_time)
    /\ [][evIdx' = evIdx + 1 =>
            currentTimestamp' = Min(events[evIdx'].timestamp, fight.end_time)]_vars

C17_FabricatedEvents ==
    /\ pc \in {"init", "complete", "fabricated"} =>
          /\ event.__fabricated = TRUE
          /\ \A f \in DOMAIN supplied \ {"__fabricated"} : event[f] = supplied[f]
          /\ "timestamp" \notin DOMAIN supplied => event.timestamp = currentTimestamp
    /\ pc = "init" =>
          /\ event.type = "init"
          /\ event.timestamp = fight.start_time
    /\ pc = "complete" =>
          /\ event.type = "complete"
          /\ event.timestamp = IF events = <<>> THEN fight.start_time
                               ELSE Min(events[Len(events)].timestamp, fight.end_time)

\* An event was fabricated for a caller that supplied a timestamp past the
\* end of the fight and a mark saying it is not fabricated, after a run whose
\* last event was past the end of the fight too.
C17_Witness ==
    /\ pc = "fabricated"
    /\ "__fabricated" \in DOMAIN supplied
    /\ supplied.__fabricated = FALSE
    /\ event.timestamp > fight.end_time
    /\ events # <<>>
    /\ events[Len(events)].timestamp > fight.end_time
    /\ fight.start_time < fight.end_time

\* C20: the timer of a counter at its maximum is not running, no counter has
\* overcap, and an action that spends a charge of one counter leaves the
\* timer of the other as it was.
C20_NoTimerWhileCapped ==
    /\ [](\A g \in Gauges :
            /\ Capped(g, gauge[g]) => timer[g] = 0
            /\ gauge[g].overCap = 0)
    /\ [][\A g, h \in Gauges :
            (g # h /\ gauge'[g].value < gauge[g].value) => timer'[h] = timer[h]]_vars

====
